---- MODULE Spec2Model ----
(***************************************************************************)
(* The cellular automaton engine of flipboard (class Automata): the grid, *)
(* the constructor, getNeighbors, update and resize.                      *)
(*                                                                         *)
(* A grid is a sequence of rows, a row a sequence of BOOLEAN; the cell     *)
(* the code addresses as grid[y][x] is grid[y + 1][x + 1] here.            *)
(***************************************************************************)
EXTENDS Integers, Sequences, FiniteSets, TLC

VARIABLES
    pc,            \* "new": no automaton yet; "idle"; "update": inside update(); "failed": the constructor threw
    ruleset,       \* Automata.ruleset
    neighborhood,  \* Automata.neighborhood
    grid,          \* Automata.grid
    newGrid,       \* update(): the local newGrid
    ux, uy,        \* update(): the loop variables x and y of the second loop
    neighbors,     \* update(): the local neighbors of the last cell computed
    reads,         \* the coordinates getNeighbors read from the grid for that cell
    last,          \* the last call made and the way it returned
    err            \* the exception the last call threw, "none" otherwise

\* The array a caller holds after reading automat.board
VARIABLES
    matrix,        \* what the caller reads through that array now; <<>>: no array held
    matrixIsGrid,  \* that array is the array this.grid refers to
    matrixRows     \* how many leading rows of it are the row arrays of this.grid

\* FlipBoard (a FlipElement is modelled by its state)
VARIABLES
    board,         \* FlipBoard.board: the state of each FlipElement
    pxWidth,       \* FlipBoard.width
    pxHeight,      \* FlipBoard.height
    cellSize,      \* FlipBoard.cellSize
    gridWidth,     \* FlipBoard.gridWidth
    gridHeight,    \* FlipBoard.gridHeight
    displayMatrix, \* FlipBoard.displayMatrix, displayMatrix[x][y]
    access         \* how the setOne calls of the last row or matrix applied went

\* The page: the two drivers of the automaton and the display
VARIABLES
    variant,       \* "none": page not loaded; "async": index.ts; "interval": the setInterval driver
    dpc,           \* where the driver invocation started last stands
    rippleY,       \* setMatrixRipple: its loop variable y
    timers,        \* callbacks scheduled that will run a cycle
    inFlight,      \* cycles started and not returned
    cycle,         \* cycles started
    generation,    \* update() calls returned
    task           \* the task the event loop ran last

automataVars == <<pc, ruleset, neighborhood, grid, newGrid, ux, uy, neighbors, reads, last, err>>

matrixVars == <<matrix, matrixIsGrid, matrixRows>>

flipVars == <<board, pxWidth, pxHeight, cellSize, gridWidth, gridHeight, displayMatrix, access>>

driverVars == <<variant, dpc, rippleY, timers, inFlight, cycle, generation, task>>

pageVars == <<flipVars, driverVars>>

vars == <<automataVars, matrixVars, pageVars>>

----------------------------------------------------------------------------
(* Bounds of the model *)

\* the largest width and height a constructor or resize argument takes (3 x 3
\* holds the two forms of a 3-cell line; 1 -> 3 grows a dimension by two)
MaxWidth == 3
MaxHeight == 3
\* the most cells random initialization makes alive
MaxAlive == 3

----------------------------------------------------------------------------
(* Values *)

\* B3/S23, Conway's Life
LifeRules == <<0, 0, 1, 3, 0, 0, 0, 0, 0>>
\* B0/S: birth on zero neighbours only
BirthZeroRules == <<2, 0, 0, 0, 0, 0, 0, 0, 0>>

\* the rulesets the automaton is constructed with
Rulesets == {LifeRules, BirthZeroRules}

\* rulesets of length 8 and 10
BadRulesets == {SubSeq(LifeRules, 1, 8), Append(BirthZeroRules, 3)}

AutomataNeighborhood == {"moore", "von-neumann"}

\* the widths and heights passed as arguments: non-positive ones and every
\* size up to the bounds
ArgWidths == (0 - 1)..MaxWidth
ArgHeights == (0 - 1)..MaxHeight

\* new Array(n).fill(v), n >= 0
NewArray(n, v) == [i \in 1..n |-> v]

Min(a, b) == IF a < b THEN a ELSE b

Max(a, b) == IF a > b THEN a ELSE b

\* grid.length
Height(g) == Len(g)
\* grid[0].length (a TypeError on an empty grid: callers guard it)
Width(g) == Len(g[1])

\* the value read by grid[y][x] used as a condition: an index past the end of
\* a row reads undefined, which is falsy
At(g, x, y) ==
    IF y + 1 \in DOMAIN g /\ x + 1 \in DOMAIN g[y + 1] THEN g[y + 1][x + 1] ELSE FALSE

\* value & 1 and value & 2 on a ruleset entry; an index past the end of the
\* ruleset reads undefined, and undefined & k is 0
RuleAt(rs, n) == IF n + 1 \in DOMAIN rs THEN rs[n + 1] ELSE 0
SurviveBit(v) == v % 2
\* (mutant of BirthBit: the birth test reads the survive bit)
BirthBitFromSurvive(v) == (v % 2) * 2
BirthBit(v) == ((v \div 2) % 2) * 2

----------------------------------------------------------------------------
(* constructor *)

\* row[x] = v; assigning at index row.length extends the row
SetIndex(row, x, v) ==
    IF x + 1 \in DOMAIN row THEN [row EXCEPT ![x + 1] = v] ELSE Append(row, v)

\* (mutant of FloorHalf: the half is rounded up)
FloorHalfUp(n) == (n + 1) \div 2

\* Math.floor(n / 2)
FloorHalf(n) == n \div 2

\* The constructor's outcome: the grid built and the exception thrown.
\* alive is the set of cells for which Math.random() > 1 - density came out true.
ConstructResult(width, height, initRand, alive) ==
    IF height < 0 \/ (height > 0 /\ width < 0)
    THEN [grid |-> <<>>, err |-> "RangeError"]
    ELSE LET blank == NewArray(height, IF width < 0 THEN <<>> ELSE NewArray(width, FALSE))
         IN  IF initRand
             THEN [grid |-> [y \in 1..height |->
                               [x \in 1..Len(blank[y]) |-> <<x - 1, y - 1>> \in alive]],
                   err |-> "none"]
             ELSE LET x == FloorHalf(width)
                      y == FloorHalf(height)
                  IN  IF y + 1 \in DOMAIN blank
                      THEN [grid |-> [blank EXCEPT ![y + 1] = SetIndex(blank[y + 1], x, TRUE)],
                            err |-> "none"]
                      ELSE [grid |-> <<>>, err |-> "TypeError"]

Construct(rs, nb, width, height, initRand, alive) ==
    /\ pc = "new"
    /\ LET r == ConstructResult(width, height, initRand, alive)
       IN  /\ err' = r.err
           /\ pc' = IF r.err = "none" THEN "idle" ELSE "failed"
           /\ grid' = r.grid
    /\ ruleset' = rs
    /\ neighborhood' = nb
    /\ last' = "new"
    /\ UNCHANGED <<newGrid, ux, uy, neighbors, reads>>

\* the sets of cells random initialisation can make alive, at most MaxAlive of them
Seeds(width, height) ==
    {s \in SUBSET ((0..(width - 1)) \X (0..(height - 1))) : Cardinality(s) <= MaxAlive}

\* new Automata(...) with the arguments the constructor documents: 9 rules,
\* a width and a height of at least 1
ConstructValid ==
    /\ pc = "new"
    /\ \E rs \in Rulesets, nb \in AutomataNeighborhood,
          width \in 1..MaxWidth, height \in 1..MaxHeight, initRand \in BOOLEAN :
           \E alive \in (IF initRand THEN Seeds(width, height) ELSE {{}}) :
               Construct(rs, nb, width, height, initRand, alive)

\* new Automata(...) without random initialisation, as the page makes it
ConstructSeed ==
    /\ pc = "new"
    /\ \E rs \in Rulesets, nb \in AutomataNeighborhood,
          width \in 1..MaxWidth, height \in 1..MaxHeight :
           Construct(rs, nb, width, height, FALSE, {})

\* new Automata(...) with a ruleset that has not 9 entries
ConstructBadRuleset ==
    /\ pc = "new"
    /\ \E rs \in BadRulesets, nb \in AutomataNeighborhood,
          width \in 1..MaxWidth, height \in 1..MaxHeight, initRand \in BOOLEAN :
           \E alive \in (IF initRand THEN Seeds(width, height) ELSE {{}}) :
               Construct(rs, nb, width, height, initRand, alive)

\* new Automata(...) with a width or a height below 1 (no cell to seed at random)
ConstructBadDimensions ==
    /\ pc = "new"
    /\ \E rs \in Rulesets \cup BadRulesets, nb \in AutomataNeighborhood,
          width \in ArgWidths, height \in ArgHeights, initRand \in BOOLEAN :
           /\ width < 1 \/ height < 1
           /\ Construct(rs, nb, width, height, initRand, {})

----------------------------------------------------------------------------
(* getNeighbors *)

\* (mutant of Offsets: the diagonal offsets are never added)
OffsetsOrthogonal(nb) == <<  <<0, -1>>, <<-1, 0>>, <<1, 0>>, <<0, 1>> >>

Offsets(nb) ==
    <<  <<0, -1>>, <<-1, 0>>, <<1, 0>>, <<0, 1>> >>
    \o (IF nb = "moore" THEN <<  <<-1, -1>>, <<1, -1>>, <<-1, 1>>, <<1, 1>> >> ELSE <<>>)

\* (mutant of InBounds: the lower bounds are not tested)
InBoundsNoLower(g, nx, ny) == nx < Width(g) /\ ny < Height(g)

\* the bounds part of the condition: when it holds grid[ny][nx] is read
InBounds(g, nx, ny) == nx >= 0 /\ nx < Width(g) /\ ny >= 0 /\ ny < Height(g)

RECURSIVE CountFrom(_, _, _, _, _)
\* the loop over offsets from the i-th on, adding to count
CountFrom(g, offsets, x, y, i) ==
    IF i > Len(offsets) THEN 0
    ELSE LET nx == x + offsets[i][1]
             ny == y + offsets[i][2]
         IN  (IF InBounds(g, nx, ny) /\ At(g, nx, ny) THEN 1 ELSE 0)
             + CountFrom(g, offsets, x, y, i + 1)

getNeighbors(g, nb, x, y) == CountFrom(g, Offsets(nb), x, y, 1)

\* the coordinates at which getNeighbors(x, y) reads grid[ny][nx]
getNeighborsReads(g, nb, x, y) ==
    LET offsets == Offsets(nb)
    IN  {c \in {<<x + offsets[i][1], y + offsets[i][2]>> : i \in 1..Len(offsets)} :
            InBounds(g, c[1], c[2])}

----------------------------------------------------------------------------
(* update *)

\* the new state of cell (x, y) given its neighbour count
NextCell(g, rs, n, x, y) ==
    IF At(g, x, y)
    THEN SurviveBit(RuleAt(rs, n)) = 1
    ELSE BirthBit(RuleAt(rs, n)) = 2

\* the allocation of newGrid and the clearing loop
UpdateBegin ==
    /\ pc = "idle"
    /\ pc' = "update"
    /\ newGrid' = IF grid = <<>> THEN <<>> ELSE NewArray(Height(grid), NewArray(Width(grid), FALSE))
    /\ ux' = 0
    /\ uy' = 0
    /\ last' = "update"
    /\ err' = "none"
    /\ UNCHANGED <<ruleset, neighborhood, grid, neighbors, reads>>

\* the second loop has cells left to compute
UpdateRunning == grid # <<>> /\ Width(grid) > 0 /\ uy < Height(grid)

\* (mutant of UpdateCell: the new state is written into the grid itself)
UpdateCellInPlace ==
    /\ pc = "update"
    /\ UpdateRunning
    /\ LET n == getNeighbors(grid, neighborhood, ux, uy)
           v == NextCell(grid, ruleset, n, ux, uy)
       IN  /\ neighbors' = n
           /\ reads' = getNeighborsReads(grid, neighborhood, ux, uy)
           /\ grid' = [grid EXCEPT ![uy + 1][ux + 1] = v]
           /\ newGrid' = [newGrid EXCEPT ![uy + 1][ux + 1] = v]
    /\ IF ux + 1 < Width(grid)
       THEN ux' = ux + 1 /\ uy' = uy
       ELSE ux' = 0 /\ uy' = uy + 1
    /\ UNCHANGED <<pc, ruleset, neighborhood, last, err>>

\* one iteration of the inner loop
UpdateCell ==
    /\ pc = "update"
    /\ UpdateRunning
    /\ LET n == getNeighbors(grid, neighborhood, ux, uy)
       IN  /\ neighbors' = n
           /\ reads' = getNeighborsReads(grid, neighborhood, ux, uy)
           /\ newGrid' = [newGrid EXCEPT ![uy + 1][ux + 1] = NextCell(grid, ruleset, n, ux, uy)]
    /\ IF ux + 1 < Width(grid)
       THEN ux' = ux + 1 /\ uy' = uy
       ELSE ux' = 0 /\ uy' = uy + 1
    /\ UNCHANGED <<pc, ruleset, neighborhood, grid, last, err>>

\* (mutant of UpdateCommit: update falls back to the moore neighbourhood)
UpdateCommitResets ==
    /\ pc = "update"
    /\ ~UpdateRunning
    /\ grid' = newGrid
    /\ pc' = "idle"
    /\ newGrid' = <<>>
    /\ ux' = 0
    /\ uy' = 0
    /\ neighbors' = 0
    /\ reads' = {}
    /\ neighborhood' = "moore"
    /\ UNCHANGED <<ruleset, last, err>>

\* this.grid = newGrid
UpdateCommit ==
    /\ pc = "update"
    /\ ~UpdateRunning
    /\ grid' = newGrid
    /\ pc' = "idle"
    /\ newGrid' = <<>>
    /\ ux' = 0
    /\ uy' = 0
    /\ neighbors' = 0
    /\ reads' = {}
    /\ UNCHANGED <<ruleset, neighborhood, last, err>>

----------------------------------------------------------------------------
(* resize *)

\* row.slice(0, width)
Slice(s, n) == SubSeq(s, 1, Min(n, Len(s)))

RECURSIVE GrowRowsSquare(_, _, _, _)
\* (mutant of GrowRows: the new rows are given height cells)
GrowRowsSquare(g, i, width, height) ==
    IF i < height - Len(g)
    THEN GrowRowsSquare(Append(g, NewArray(height, FALSE)), i + 1, width, height)
    ELSE g

RECURSIVE GrowRows(_, _, _, _)
\* for (let i = 0; i < height - this.grid.length; i++) this.grid.push(row of width)
GrowRows(g, i, width, height) ==
    IF i < height - Len(g)
    THEN GrowRows(Append(g, NewArray(width, FALSE)), i + 1, width, height)
    ELSE g

\* (mutant of ResizeWidth: the cells appended are alive)
ResizeWidthAlive(g, width) ==
    IF width < Width(g)
    THEN [i \in 1..Len(g) |-> Slice(g[i], width)]
    ELSE IF width > Width(g)
    THEN [i \in 1..Len(g) |-> g[i] \o NewArray(width - Len(g[i]), TRUE)]
    ELSE g

\* the width adjustment
ResizeWidth(g, width) ==
    IF width < Width(g)
    THEN [i \in 1..Len(g) |-> Slice(g[i], width)]
    ELSE IF width > Width(g)
    THEN [i \in 1..Len(g) |-> g[i] \o NewArray(width - Len(g[i]), FALSE)]
    ELSE g

\* the height adjustment
ResizeHeight(g, width, height) ==
    IF height < Len(g)
    THEN SubSeq(g, 1, height)
    ELSE IF height > Len(g)
    THEN GrowRows(g, 0, width, height)
    ELSE g

\* (mutant of ResizeRejects: zero passes the test)
ResizeRejectsNegative(width, height) == width < 0 \/ height < 0

\* the first test of resize: a width or a height below 1
ResizeRejects(width, height) == width < 1 \/ height < 1

\* resize(width, height): the grid afterwards, the way the call returned and
\* the exception thrown (grid[0] of an empty grid is undefined; new Array(n)
\* with n < 0 is a RangeError)
ResizeResult(g, width, height) ==
    IF ResizeRejects(width, height)
    THEN [grid |-> g, path |-> "resize:nonpositive", err |-> "none"]
    ELSE IF g = <<>>
    THEN [grid |-> g, path |-> "resize:threw", err |-> "TypeError"]
    ELSE IF width = Width(g) /\ height = Height(g)
    THEN [grid |-> g, path |-> "resize:unchanged", err |-> "none"]
    ELSE IF width > Width(g) /\ \E i \in 1..Len(g) : Len(g[i]) > width
    THEN LET k == CHOOSE i \in 1..Len(g) :
                    /\ Len(g[i]) > width
                    /\ \A j \in 1..(i - 1) : Len(g[j]) <= width
         IN  [grid |-> [i \in 1..Len(g) |->
                          IF i < k THEN g[i] \o NewArray(width - Len(g[i]), FALSE) ELSE g[i]],
              path |-> "resize:threw", err |-> "RangeError"]
    ELSE [grid |-> ResizeHeight(ResizeWidth(g, width), width, height),
          path |-> "resize:reshaped", err |-> "none"]

Resize(width, height) ==
    /\ pc = "idle"
    /\ LET r == ResizeResult(grid, width, height)
       IN  /\ grid' = r.grid
           /\ err' = r.err
           /\ last' = r.path
    /\ UNCHANGED <<pc, ruleset, neighborhood, newGrid, ux, uy, neighbors, reads>>

ResizeAny ==
    /\ pc = "idle"
    /\ \E width \in ArgWidths, height \in ArgHeights : Resize(width, height)

----------------------------------------------------------------------------
(* get board(): the accessor returns this.grid itself *)

\* return this.grid
GetBoard ==
    /\ pc = "idle"
    /\ matrix = <<>>
    /\ matrix' = grid
    /\ matrixIsGrid' = TRUE
    /\ matrixRows' = Len(grid)
    /\ UNCHANGED automataVars

\* the caller lets go of the array
DropBoard ==
    /\ pc = "idle"
    /\ matrix # <<>>
    /\ matrix' = <<>>
    /\ matrixIsGrid' = FALSE
    /\ matrixRows' = 0
    /\ UNCHANGED automataVars

\* What resize(width, height) does to the array held, on the path that
\* reshapes the grid g. map and slice make new arrays; push changes the
\* array it is called on.
HeldAfterResize(g, width, height) ==
    LET g1 == ResizeWidth(g, width)
        narrower == width < Width(g)
        \* line 135: new outer array, new rows; lines 137-141: the rows grow in place
        m1 == IF narrower THEN matrix
              ELSE [i \in 1..Len(matrix) |->
                        IF i <= matrixRows THEN g1[i] ELSE matrix[i]]
        isGrid1 == IF narrower THEN FALSE ELSE matrixIsGrid
        rows1 == IF narrower THEN 0 ELSE matrixRows
        g2 == ResizeHeight(g1, width, height)
    IN  IF height < Len(g1)
        \* line 145: new outer array of the same rows
        THEN [matrix |-> m1, isGrid |-> FALSE, rows |-> Min(rows1, height)]
        ELSE IF height > Len(g1) /\ isGrid1
        \* lines 147-149: rows pushed onto the array held
        THEN [matrix |-> g2, isGrid |-> TRUE, rows |-> Len(g2)]
        ELSE [matrix |-> m1, isGrid |-> isGrid1, rows |-> rows1]

\* resize(width, height) while a caller holds the array
ResizeHeld(width, height) ==
    /\ Resize(width, height)
    /\ LET held == IF ResizeResult(grid, width, height).path = "resize:reshaped"
                   THEN HeldAfterResize(grid, width, height)
                   ELSE [matrix |-> matrix, isGrid |-> matrixIsGrid, rows |-> matrixRows]
       IN  /\ matrix' = held.matrix
           /\ matrixIsGrid' = held.isGrid
           /\ matrixRows' = held.rows

ResizeHeldAny ==
    /\ pc = "idle"
    /\ \E width \in ArgWidths, height \in ArgHeights : ResizeHeld(width, height)

\* this.grid = newGrid while a caller holds the array: the array held is
\* left as it is, and stops being the grid
UpdateCommitHeld ==
    /\ UpdateCommit
    /\ matrixIsGrid' = FALSE
    /\ matrixRows' = 0
    /\ UNCHANGED matrix

----------------------------------------------------------------------------
(* FlipBoard *)

\* the widths and heights, in pixels, the parent element takes
ParentWidths == {300, 310}
ParentHeights == {10, 20, 30}

\* Math.ceil(a / b), a >= 0 and b > 0
CeilDiv(a, b) == (a + b - 1) \div b

\* setCellSize with a parent of w x h pixels: the value given to cellSize
\* (aspect = w / h; aspect < 0.5 is 2w < h and aspect > 2 is w > 2h)
setCellSize(w, h) ==
    LET badAspect == 2 * w < h \/ w > 2 * h
        widthCand == w \div 30
        heightCand == h \div 30
        cand == IF ~badAspect
                THEN Min(widthCand, heightCand)
                ELSE Max(widthCand, heightCand)
    IN  (cand \div 10) * 10

\* the parent sizes that give a positive cell size
ParentSizes == {s \in ParentWidths \X ParentHeights : setCellSize(s[1], s[2]) > 0}

\* the fields of the FlipBoard
ThisBoard ==
    [pxWidth |-> pxWidth, pxHeight |-> pxHeight, cellSize |-> cellSize,
     gridWidth |-> gridWidth, gridHeight |-> gridHeight,
     displayMatrix |-> displayMatrix, board |-> board]

\* displayMatrix[x][y], undefined (falsy) past the end of a column
MatrixAt(dm, x, y) ==
    /\ x + 1 \in DOMAIN dm
    /\ y + 1 \in DOMAIN dm[x + 1]
    /\ dm[x + 1][y + 1]

\* reformatCells: cells are pushed or popped until there are newCellCount
ReformatCount(b, oldCellCount, newCellCount) ==
    IF oldCellCount < newCellCount
    THEN b \o NewArray(newCellCount - oldCellCount, FALSE)
    ELSE IF oldCellCount > newCellCount
    THEN SubSeq(b, 1, Max(0, Len(b) - (oldCellCount - newCellCount)))
    ELSE b

\* reformatCells: every cell takes its new position and the state the
\* display matrix holds there
ReformatStates(b, fb, newGridWidth) ==
    [i \in 1..Len(b) |->
        LET xPos == (i - 1) % newGridWidth
            yPos == (i - 1) \div newGridWidth
        IN  /\ xPos < fb.gridWidth
            /\ yPos < fb.gridHeight
            /\ MatrixAt(fb.displayMatrix, xPos, yPos)]

\* (mutant of AdjustWidth: the new columns are made with the new height)
AdjustWidthNewHeight(dm, oldGridWidth, oldGridHeight, newGridWidth, newGridHeight) ==
    IF newGridWidth > oldGridWidth
    THEN dm \o NewArray(newGridWidth - oldGridWidth, NewArray(newGridHeight, FALSE))
    ELSE IF newGridWidth < oldGridWidth
    THEN Slice(dm, newGridWidth)
    ELSE dm

\* reformatCells: "adjust width"
AdjustWidth(dm, oldGridWidth, oldGridHeight, newGridWidth, newGridHeight) ==
    IF newGridWidth > oldGridWidth
    THEN dm \o NewArray(newGridWidth - oldGridWidth, NewArray(oldGridHeight, FALSE))
    ELSE IF newGridWidth < oldGridWidth
    THEN Slice(dm, newGridWidth)
    ELSE dm

\* reformatCells: "adjust height", on the first newGridWidth columns
AdjustHeight(dm, oldGridHeight, newGridWidth, newGridHeight) ==
    IF newGridHeight > oldGridHeight
    THEN [x \in 1..Len(dm) |->
            IF x <= newGridWidth
            THEN dm[x] \o NewArray(newGridHeight - oldGridHeight, FALSE)
            ELSE dm[x]]
    ELSE IF newGridHeight < oldGridHeight
    THEN [x \in 1..Len(dm) |->
            IF x <= newGridWidth THEN Slice(dm[x], newGridHeight) ELSE dm[x]]
    ELSE dm

\* reformatCells() on the board fb when the parent is newWidth x newHeight
\* pixels: the fields afterwards
reformatCells(fb, newWidth, newHeight) ==
    LET cs == setCellSize(newWidth, newHeight)
    IN  IF newWidth = fb.pxWidth /\ newHeight = fb.pxHeight
        THEN [fb EXCEPT !.cellSize = cs]
        ELSE LET newGridWidth == CeilDiv(newWidth, cs)
                 newGridHeight == CeilDiv(newHeight, cs)
                 oldCellCount == fb.gridWidth * fb.gridHeight
                 newCellCount == newGridWidth * newGridHeight
                 b == ReformatCount(fb.board, oldCellCount, newCellCount)
                 dm == AdjustWidth(fb.displayMatrix, fb.gridWidth, fb.gridHeight,
                                   newGridWidth, newGridHeight)
             IN  [pxWidth |-> newWidth, pxHeight |-> newHeight, cellSize |-> cs,
                  gridWidth |-> newGridWidth, gridHeight |-> newGridHeight,
                  displayMatrix |-> AdjustHeight(dm, fb.gridHeight, newGridWidth, newGridHeight),
                  board |-> ReformatStates(b, fb, newGridWidth)]

\* new FlipBoard(parent) with a parent of w x h pixels: the fields afterwards
FlipBoardNew(w, h) ==
    LET cs == setCellSize(w, h)
        gw == CeilDiv(w, cs)
        gh == CeilDiv(h, cs)
    IN  reformatCells([pxWidth |-> w, pxHeight |-> h, cellSize |-> cs,
                       gridWidth |-> gw, gridHeight |-> gh,
                       displayMatrix |-> NewArray(gw, NewArray(gh, FALSE)),
                       board |-> NewArray(gw * gh, FALSE)], w, h)

\* (mutant of SetOneReturns: only the lower bounds are tested)
SetOneReturnsNoUpper(x, y) == x < 0 \/ y < 0

\* the test setOne returns on
SetOneReturns(x, y) == x < 0 \/ x >= gridWidth \/ y < 0 \/ y >= gridHeight

\* how the setOne calls of a row went so far, after one more went as o
Outcome(a, o) ==
    IF a \in {"out of range", "TypeError"} THEN a
    ELSE IF a = "skipped" /\ o = "inside" THEN a
    ELSE o

\* setOne(x, y, state, updateMatrix) on st, the board, the display matrix and
\* the way the calls before went. board[i] past the end is undefined, and
\* calling set on it throws; so does writing to displayMatrix[x] when there is
\* no such column; writing past the end of a column extends it.
setOne(st, x, y, state, updateMatrix) ==
    LET i == y * gridWidth + x
    IN  IF SetOneReturns(x, y)
        THEN [st EXCEPT !.access = Outcome(@, "skipped")]
        ELSE IF i + 1 \notin DOMAIN st.board
        THEN [st EXCEPT !.access = "TypeError"]
        ELSE LET b == [st.board EXCEPT ![i + 1] = state]
             IN  IF ~updateMatrix
                 THEN [st EXCEPT !.board = b, !.access = Outcome(@, "inside")]
                 ELSE IF x + 1 \notin DOMAIN st.displayMatrix
                 THEN [st EXCEPT !.board = b, !.access = "TypeError"]
                 ELSE [board |-> b,
                       displayMatrix |->
                           [st.displayMatrix EXCEPT ![x + 1] = SetIndex(@, y, state)],
                       access |-> IF y + 1 \in DOMAIN st.displayMatrix[x + 1]
                                  THEN Outcome(st.access, "inside")
                                  ELSE "out of range"]

RECURSIVE SetRow(_, _, _, _)
\* for (let x = 0; x < matrix[0].length; x++) this.setOne(x, y, matrix[y][x], true)
\* with the matrix m
SetRow(st, m, y, x) ==
    IF x < Len(m[1]) /\ st.access # "TypeError"
    THEN SetRow(setOne(st, x, y, At(m, x, y), TRUE), m, y, x + 1)
    ELSE st

RECURSIVE SetRows(_, _, _)
\* setMatrix(m, true): the loop over the rows, from row y on
SetRows(st, m, y) ==
    IF y < Len(m) /\ st.access # "TypeError"
    THEN SetRows(SetRow(st, m, y, 0), m, y + 1)
    ELSE st

\* the board and the display matrix before a row or a matrix is applied
Display == [board |-> board, displayMatrix |-> displayMatrix, access |-> "none"]

----------------------------------------------------------------------------
(* The page: index.ts, and its earlier form with setInterval *)

\* the cycles the drivers run
MaxCycles == 3

\* "automata replicator B1357/S1357 moore"
ReplicatorRules == <<0, 3, 0, 3, 0, 3, 0, 3, 0>>

Variants == {"async", "interval"}

\* (mutant of Rearms: the asynchronous cycle is run by setInterval too)
RearmsAlways(v) == TRUE

\* the timer of the driver v runs its callback again by itself (setInterval)
Rearms(v) == v = "interval"

\* synchronous code of the page is running: no other task can start
Running == pc = "update" \/ dpc \in {"call", "shown"}

\* ready(...): the board and the automaton are made, and the driver started
PageLoad(v, w, h) ==
    /\ variant = "none"
    /\ LET fb == FlipBoardNew(w, h)
       IN  /\ board' = fb.board
           /\ pxWidth' = fb.pxWidth
           /\ pxHeight' = fb.pxHeight
           /\ cellSize' = fb.cellSize
           /\ gridWidth' = fb.gridWidth
           /\ gridHeight' = fb.gridHeight
           /\ displayMatrix' = fb.displayMatrix
           /\ Construct(ReplicatorRules, "moore", fb.gridWidth, fb.gridHeight, FALSE, {})
    /\ variant' = v
    /\ dpc' = IF v = "async" THEN "call" ELSE "none"
    /\ timers' = IF Rearms(v) THEN 1 ELSE 0
    /\ task' = "load"
    /\ UNCHANGED <<access, rippleY, inFlight, cycle, generation, matrixVars>>

PageLoadAny ==
    /\ variant = "none"
    /\ \E v \in Variants, s \in ParentSizes : PageLoad(v, s[1], s[2])

\* the window "resize" listener, with the parent now w x h pixels
WindowResize(w, h) ==
    /\ variant # "none"
    /\ ~Running
    /\ LET fb == reformatCells(ThisBoard, w, h)
       IN  /\ board' = fb.board
           /\ pxWidth' = fb.pxWidth
           /\ pxHeight' = fb.pxHeight
           /\ cellSize' = fb.cellSize
           /\ gridWidth' = fb.gridWidth
           /\ gridHeight' = fb.gridHeight
           /\ displayMatrix' = fb.displayMatrix
    /\ task' = IF w = pxWidth /\ h = pxHeight THEN "reformat:unchanged" ELSE "reformat"
    /\ UNCHANGED <<automataVars, matrixVars, access>>
    /\ UNCHANGED <<variant, dpc, rippleY, timers, inFlight, cycle, generation>>

WindowResizeAny ==
    /\ variant # "none"
    /\ ~Running
    /\ \E s \in ParentSizes : WindowResize(s[1], s[2])

\* A cycle starts, by the call at the end of ready or by a timer. It runs
\* automat.resize(...board.dimensions), then board.setMatrixRipple(automat.board,
\* true) up to its first await, or board.setMatrix(automat.board, true)
CycleStart ==
    /\ variant # "none"
    /\ dpc = "call" \/ (~Running /\ timers > 0)
    /\ cycle < MaxCycles
    /\ Resize(gridWidth, gridHeight)
    /\ LET g == ResizeResult(grid, gridWidth, gridHeight).grid
           st == IF variant = "async"
                 THEN IF 0 < Len(g) THEN SetRow(Display, g, 0, 0) ELSE Display
                 ELSE SetRows(Display, g, 0)
           threw == st.access = "TypeError"
       IN  /\ board' = st.board
           /\ displayMatrix' = st.displayMatrix
           /\ access' = st.access
           /\ dpc' = IF threw THEN "threw"
                     ELSE IF variant = "async" THEN "ripple" ELSE "shown"
           /\ matrix' = IF variant = "async" /\ ~threw THEN g ELSE <<>>
           /\ matrixIsGrid' = (variant = "async" /\ ~threw)
           /\ matrixRows' = IF variant = "async" /\ ~threw THEN Len(g) ELSE 0
           /\ inFlight' = IF threw THEN inFlight ELSE inFlight + 1
    /\ rippleY' = 0
    /\ timers' = IF dpc = "call" \/ Rearms(variant) THEN timers ELSE timers - 1
    /\ cycle' = cycle + 1
    /\ task' = "cycle"
    /\ UNCHANGED <<pxWidth, pxHeight, cellSize, gridWidth, gridHeight, variant, generation>>

\* setMatrixRipple resumes after await wait(12) and applies its next row
RippleRow ==
    /\ dpc = "ripple"
    /\ ~Running
    /\ rippleY + 1 < Len(matrix)
    /\ LET st == SetRow(Display, matrix, rippleY + 1, 0)
           threw == st.access = "TypeError"
       IN  /\ board' = st.board
           /\ displayMatrix' = st.displayMatrix
           /\ access' = st.access
           /\ dpc' = IF threw THEN "threw" ELSE "ripple"
           /\ matrix' = IF threw THEN <<>> ELSE matrix
           /\ matrixIsGrid' = IF threw THEN FALSE ELSE matrixIsGrid
           /\ matrixRows' = IF threw THEN 0 ELSE matrixRows
           /\ inFlight' = IF threw THEN inFlight - 1 ELSE inFlight
    /\ rippleY' = rippleY + 1
    /\ task' = "row"
    /\ UNCHANGED <<automataVars, pxWidth, pxHeight, cellSize, gridWidth, gridHeight>>
    /\ UNCHANGED <<variant, timers, cycle, generation>>

\* setMatrixRipple resumes after await wait(12), finds no row left and returns
RippleEnd ==
    /\ dpc = "ripple"
    /\ ~Running
    /\ ~(rippleY + 1 < Len(matrix))
    /\ dpc' = "shown"
    /\ matrix' = <<>>
    /\ matrixIsGrid' = FALSE
    /\ matrixRows' = 0
    /\ task' = "row"
    /\ UNCHANGED <<automataVars, flipVars>>
    /\ UNCHANGED <<variant, rippleY, timers, inFlight, cycle, generation>>

\* automat.update(), called by the cycle after the display
CycleUpdateBegin ==
    /\ dpc = "shown"
    /\ UpdateBegin
    /\ dpc' = "update"
    /\ task' = "update"
    /\ UNCHANGED <<matrixVars, flipVars>>
    /\ UNCHANGED <<variant, rippleY, timers, inFlight, cycle, generation>>

CycleUpdateCell ==
    /\ dpc = "update"
    /\ UpdateCell
    /\ UNCHANGED <<matrixVars, pageVars>>

\* update() returns; the asynchronous cycle then calls
\* setTimeout(() => requestAnimationFrame(update), 1000), and the cycle returns
CycleEnd ==
    /\ dpc = "update"
    /\ UpdateCommitHeld
    /\ dpc' = "none"
    /\ generation' = generation + 1
    /\ inFlight' = inFlight - 1
    /\ timers' = IF Rearms(variant) THEN timers ELSE timers + 1
    /\ UNCHANGED <<flipVars, variant, rippleY, cycle, task>>

----------------------------------------------------------------------------
(* Specifications *)

Init ==
    /\ pc = "new"
    /\ ruleset = <<>>
    /\ neighborhood = "moore"
    /\ grid = <<>>
    /\ newGrid = <<>>
    /\ ux = 0
    /\ uy = 0
    /\ neighbors = 0
    /\ reads = {}
    /\ last = "none"
    /\ err = "none"
    /\ matrix = <<>>
    /\ matrixIsGrid = FALSE
    /\ matrixRows = 0
    /\ board = <<>>
    /\ pxWidth = 0
    /\ pxHeight = 0
    /\ cellSize = 0
    /\ gridWidth = 0
    /\ gridHeight = 0
    /\ displayMatrix = <<>>
    /\ access = "none"
    /\ variant = "none"
    /\ dpc = "none"
    /\ rippleY = 0
    /\ timers = 0
    /\ inFlight = 0
    /\ cycle = 0
    /\ generation = 0
    /\ task = "none"

\* the automaton constructed with valid arguments, then updated and resized
Next ==
    \/ ConstructValid /\ UNCHANGED <<matrixVars, pageVars>>
    \/ UpdateBegin /\ UNCHANGED <<matrixVars, pageVars>>
    \/ UpdateCell /\ UNCHANGED <<matrixVars, pageVars>>
    \/ UpdateCommit /\ UNCHANGED <<matrixVars, pageVars>>
    \/ ResizeAny /\ UNCHANGED <<matrixVars, pageVars>>

Spec == Init /\ [][Next]_vars

\* the automaton constructed with any arguments, then updated and resized
NextAnyArgs ==
    \/ ConstructBadRuleset /\ UNCHANGED <<matrixVars, pageVars>>
    \/ ConstructBadDimensions /\ UNCHANGED <<matrixVars, pageVars>>
    \/ ConstructValid /\ UNCHANGED <<matrixVars, pageVars>>
    \/ UpdateBegin /\ UNCHANGED <<matrixVars, pageVars>>
    \/ UpdateCell /\ UNCHANGED <<matrixVars, pageVars>>
    \/ UpdateCommit /\ UNCHANGED <<matrixVars, pageVars>>
    \/ ResizeAny /\ UNCHANGED <<matrixVars, pageVars>>

SpecAnyArgs == Init /\ [][NextAnyArgs]_vars

\* the automaton constructed with one live cell, then updated and resized
\* while a caller reads automat.board and keeps what it returned
NextBoard ==
    \/ ConstructSeed /\ UNCHANGED <<matrixVars, pageVars>>
    \/ GetBoard /\ UNCHANGED pageVars
    \/ DropBoard /\ UNCHANGED pageVars
    \/ UpdateBegin /\ UNCHANGED <<matrixVars, pageVars>>
    \/ UpdateCell /\ UNCHANGED <<matrixVars, pageVars>>
    \/ UpdateCommitHeld /\ UNCHANGED pageVars
    \/ ResizeHeldAny /\ UNCHANGED pageVars

SpecBoard == Init /\ [][NextBoard]_vars

\* the page: the board and the automaton are made, the driver runs its
\* cycles and the window is resized between the tasks
NextPage ==
    \/ PageLoadAny
    \/ WindowResizeAny
    \/ CycleStart
    \/ RippleRow
    \/ RippleEnd
    \/ CycleUpdateBegin
    \/ CycleUpdateCell
    \/ CycleEnd

SpecPage == Init /\ [][NextPage]_vars

----------------------------------------------------------------------------
(* Vocabulary of the properties *)

\* g has exactly h rows of exactly w cells
Rect(g, w, h) == Len(g) = h /\ \A i \in 1..Len(g) : Len(g[i]) = w

\* the coordinates of the cells g holds
Cells(g) == {c \in (0..MaxWidth) \X (0..MaxHeight) :
                c[2] + 1 \in DOMAIN g /\ c[1] + 1 \in DOMAIN g[c[2] + 1]}

Alive(g) == {c \in Cells(g) : g[c[2] + 1][c[1] + 1]}

\* the automaton exists and no call is running
Idle == pc = "idle"

\* the cells around (x, y) that the neighbourhood nb names, wherever they fall
NeighborCoords(nb, x, y) ==
    IF nb = "moore"
    THEN {<<x + dx, y + dy>> : dx \in {0 - 1, 0, 1}, dy \in {0 - 1, 0, 1}} \ {<<x, y>>}
    ELSE {<<x - 1, y>>, <<x + 1, y>>, <<x, y - 1>>, <<x, y + 1>>}

\* the live cells of g among them
LiveNeighborCount(g, nb, x, y) == Cardinality(NeighborCoords(nb, x, y) \cap Alive(g))

\* the flags of a ruleset entry
HasSurvive(v) == v \in {1, 3}
HasBirth(v) == v \in {2, 3}

\* the three cells of a horizontal and of a vertical line centred on (cx, cy)
HLine(cx, cy) == {<<cx - 1, cy>>, <<cx, cy>>, <<cx + 1, cy>>}
VLine(cx, cy) == {<<cx, cy - 1>>, <<cx, cy>>, <<cx, cy + 1>>}

----------------------------------------------------------------------------
(* resize *)

\* C1: resize(newWidth, newHeight) with both arguments >= 1 leaves a grid of
\* exactly newHeight rows of exactly newWidth cells, whatever the change in
\* each dimension.
C1_ResizeDimensions ==
    [][\A w \in 1..MaxWidth, h \in 1..MaxHeight :
          Resize(w, h) => Rect(grid', w, h)]_vars

\* C2: resize with both arguments >= 1 keeps the state of every cell of the
\* overlap of the old and the new rectangle, and every cell of the resulting
\* grid outside the old rectangle is dead.
\* (a call that returned through the first test had an argument < 1: only
\* the other steps are looked at)
C2_ResizePreserves ==
    [][(Idle /\ last' # "resize:nonpositive") =>
         \A w \in 1..MaxWidth, h \in 1..MaxHeight :
            Resize(w, h) =>
              /\ \A x \in 0..(Min(Width(grid), w) - 1), y \in 0..(Min(Height(grid), h) - 1) :
                    /\ <<x, y>> \in Cells(grid')
                    /\ grid'[y + 1][x + 1] = grid[y + 1][x + 1]
              /\ \A c \in Cells(grid') :
                    (c[1] >= Width(grid) \/ c[2] >= Height(grid)) => ~grid'[c[2] + 1][c[1] + 1]]_vars

\* a reshaping resize has returned on a grid holding live cells and dead ones
C2_Witness ==
    /\ Idle
    /\ last = "resize:reshaped"
    /\ Alive(grid) # {}
    /\ Alive(grid) # Cells(grid)

\* C3: resize with an argument < 1, or with the current dimensions, leaves
\* the grid as it is and throws nothing.
C3_ResizeNoOp ==
    [][Idle =>
         \A w \in ArgWidths, h \in ArgHeights :
            ((w < 1 \/ h < 1 \/ (w = Width(grid) /\ h = Height(grid))) /\ Resize(w, h))
              => (grid' = grid /\ err' = "none")]_vars

\* a resize with a non-positive argument has returned on a grid with live cells
C3_Witness ==
    /\ Idle
    /\ last = "resize:nonpositive"
    /\ Alive(grid) # {}

\* C4: resize(w2, h2) and then resize(w1, h1) back to the dimensions the grid
\* had gives a w1 x h1 grid whose cells inside the intersection have their
\* original value and whose other cells are dead. The step is the first
\* resize; the second is the call made on its result.
C4_ResizeRoundTrip ==
    [][\A w2 \in 1..MaxWidth, h2 \in 1..MaxHeight :
          Resize(w2, h2) =>
            LET w1 == Width(grid)
                h1 == Height(grid)
                back == ResizeResult(grid', w1, h1).grid
            IN  /\ Rect(back, w1, h1)
                /\ \A c \in Cells(back) :
                      back[c[2] + 1][c[1] + 1] =
                        (c[1] < w2 /\ c[2] < h2 /\ grid[c[2] + 1][c[1] + 1])]_vars

----------------------------------------------------------------------------
(* update and getNeighbors *)

\* C5: update() gives every cell the SURVIVE bit of ruleset[n] if it was alive
\* and the BIRTH bit of ruleset[n] if it was dead, n counted in the grid as it
\* was before the call; the grid stays that previous generation while update
\* runs and is replaced in one assignment.
C5_UpdateRule ==
    [][/\ pc' = "update" => grid' = grid
       /\ UpdateCommit =>
            /\ Rect(grid', Width(grid), Height(grid))
            /\ \A c \in Cells(grid) :
                  LET n == LiveNeighborCount(grid, neighborhood, c[1], c[2])
                  IN  grid'[c[2] + 1][c[1] + 1] =
                        IF grid[c[2] + 1][c[1] + 1]
                        THEN HasSurvive(ruleset[n + 1])
                        ELSE HasBirth(ruleset[n + 1])]_vars

\* update is past its first row, has computed a live cell where the grid has
\* a dead one, and the grid still holds live cells of the previous generation
C5_Witness ==
    /\ pc = "update"
    /\ uy >= 1
    /\ Alive(grid) # {}
    /\ Alive(newGrid) \ Alive(grid) # {}

\* C6: the neighbour count of a cell is the number of live cells among the
\* in-bounds cells of its neighbourhood (8 offsets for moore, 4 for
\* von-neumann); no coordinate outside the grid is read or counted, none
\* wraps around, and the count is at most 8, or 4.
C6_NeighborCount ==
    [][UpdateCell =>
         /\ neighbors' = LiveNeighborCount(grid, neighborhood, ux, uy)
         /\ reads' = NeighborCoords(neighborhood, ux, uy) \cap Cells(grid)
         /\ neighbors' <= (IF neighborhood = "moore" THEN 8 ELSE 4)]_vars

\* a cell on the border of the grid was counted: some of its neighbourhood is
\* outside the grid, and all of it that is inside is alive
C6_Witness ==
    /\ pc = "update"
    /\ neighborhood = "moore"
    /\ Cardinality(reads) \in 3..7
    /\ neighbors = Cardinality(reads)

\* C7: a grid with every cell dead is still fully dead after one update()
\* if and only if ruleset[0] has no BIRTH bit.
C7_DeadGrid ==
    [][(UpdateCommit /\ Alive(grid) = {}) =>
         ((Alive(grid') = {}) <=> ~HasBirth(ruleset[1]))]_vars

\* update has computed the whole next generation of a fully dead grid under a
\* ruleset with birth on zero neighbours, and is about to assign it
C7_Witness ==
    /\ pc = "update"
    /\ ~UpdateRunning
    /\ Alive(grid) = {}
    /\ Alive(newGrid) = Cells(grid)

\* C8: under B3/S23 and moore, one update() turns a grid whose only live cells
\* are a horizontal 3-cell line (with room for the vertical one) into the grid
\* whose only live cells are the vertical line through the same centre, and
\* turns that one back: the two alternate, the original returning after every
\* even number of updates.
C8_Blinker ==
    [][(UpdateCommit /\ ruleset = LifeRules /\ neighborhood = "moore") =>
         /\ Rect(grid', Width(grid), Height(grid))
         /\ \A cx \in 1..(Width(grid) - 2), cy \in 1..(Height(grid) - 2) :
               /\ Alive(grid) = HLine(cx, cy) => Alive(grid') = VLine(cx, cy)
               /\ Alive(grid) = VLine(cx, cy) => Alive(grid') = HLine(cx, cy)]_vars

\* an update under B3/S23 and moore has returned and left a vertical line
C8_Witness ==
    /\ Idle
    /\ last = "update"
    /\ ruleset = LifeRules
    /\ neighborhood = "moore"
    /\ \E cx \in 1..(Width(grid) - 2), cy \in 1..(Height(grid) - 2) :
          Alive(grid) = VLine(cx, cy)

----------------------------------------------------------------------------
(* constructor *)

\* C9: constructing with a ruleset whose length is not 9 fails with
\* InvalidRuleset, before any grid is created.
C9_InvalidRuleset ==
    (pc # "new" /\ Len(ruleset) # 9) =>
        (pc = "failed" /\ err = "InvalidRuleset" /\ grid = <<>>)

\* C10: constructing with width < 1 or height < 1 fails with
\* InvalidDimensions in both initialization modes, and no automaton with an
\* empty, zero-width or ragged grid is ever produced.
C10_InvalidDimensions ==
    [][/\ pc = "new" =>
            \A rs \in Rulesets, nb \in AutomataNeighborhood, initRand \in BOOLEAN,
               width \in ArgWidths, height \in ArgHeights :
                (Construct(rs, nb, width, height, initRand, {}) /\ (width < 1 \/ height < 1))
                    => (pc' = "failed" /\ err' = "InvalidDimensions")
       /\ pc' = "idle" =>
            (grid' # <<>> /\ Width(grid') >= 1 /\ Rect(grid', Width(grid'), Height(grid')))]_vars


\* C11: constructing with width >= 1, height >= 1 and initRand = false gives a
\* width x height grid whose only live cell is (floor(width/2), floor(height/2)).
C11_SingleSeed ==
    [][pc = "new" =>
         \A rs \in Rulesets, nb \in AutomataNeighborhood,
            width \in 1..MaxWidth, height \in 1..MaxHeight :
             Construct(rs, nb, width, height, FALSE, {}) =>
                /\ Rect(grid', width, height)
                /\ Alive(grid') = {<<width \div 2, height \div 2>>}]_vars

\* the constructor has returned a grid of the largest size with one live
\* cell, in its middle
C11_Witness ==
    /\ Idle
    /\ last = "new"
    /\ Rect(grid, MaxWidth, MaxHeight)
    /\ Alive(grid) = {<<MaxWidth \div 2, MaxHeight \div 2>>}

----------------------------------------------------------------------------
(* invariants of the automaton *)

\* C12: in every state reached from a construction with width >= 1 and
\* height >= 1 by update() and resize(w, h) calls with any arguments, all
\* rows of the grid have the same length.
C12_Rectangular ==
    \A i \in DOMAIN grid, j \in DOMAIN grid : Len(grid[i]) = Len(grid[j])

\* a resize has reshaped the grid into one of several rows, wider than high
C12_Witness ==
    /\ Idle
    /\ last = "resize:reshaped"
    /\ Height(grid) >= 2
    /\ Width(grid) > Height(grid)

\* C13: the board accessor gives a snapshot: what a value it returned holds
\* is not changed by a later update() or resize().
C13_BoardSnapshot ==
    [][(matrix # <<>> /\ matrix' # <<>>) => matrix' = matrix]_vars

\* C14: update() and resize() never change the ruleset or the neighborhood:
\* both stay the values given at construction.
C14_RulesFixed ==
    [][pc # "new" => (ruleset' = ruleset /\ neighborhood' = neighborhood)]_vars

\* an update has returned on an automaton built with the von-neumann
\* neighbourhood and the second ruleset, and left live cells
C14_Witness ==
    /\ Idle
    /\ last = "update"
    /\ neighborhood = "von-neumann"
    /\ ruleset = BirthZeroRules
    /\ Alive(grid) # {}

\* C15: resize is idempotent: the grid after resize(w, h); resize(w, h) is the
\* grid after one resize(w, h). The step is the first call; the second is the
\* call made on its result.
C15_ResizeIdempotent ==
    [][Idle =>
         \A w \in ArgWidths, h \in ArgHeights :
            Resize(w, h) => ResizeResult(grid', w, h).grid = grid']_vars

\* C16: in every state reached from a construction with width >= 1 and
\* height >= 1 by update() and resize(w, h) calls, zero and negative
\* arguments included, the grid has at least one row and one column, and no
\* call has thrown.
C16_NonEmpty ==
    pc # "new" =>
        /\ pc # "failed"
        /\ err = "none"
        /\ Len(grid) >= 1
        /\ Len(grid[1]) >= 1

\* a resize has shrunk the grid to a single cell
C16_Witness ==
    /\ Idle
    /\ last = "resize:reshaped"
    /\ Rect(grid, 1, 1)

----------------------------------------------------------------------------
(* the page *)

\* a window resize has run reformatCells
Reformatted == task \in {"reformat", "reformat:unchanged"}

\* the display matrix has a true entry
Lit == \E x \in DOMAIN displayMatrix : \E y \in DOMAIN displayMatrix[x] : displayMatrix[x][y]

\* C17: the cycles of the asynchronous driver never overlap: the next cycle
\* is scheduled only when the awaited setMatrixRipple has completed and
\* automat.update() has run, so while a ripple is in progress neither resize
\* nor update runs, and the matrix being rippled is not modified.
C17_NoOverlap ==
    [][variant = "async" =>
         /\ inFlight' <= 1
         /\ timers' > timers =>
                (dpc = "update" /\ dpc' = "none" /\ generation' = generation + 1)
         /\ dpc = "ripple" =>
                /\ automataVars' = automataVars
                /\ dpc' = "ripple" => matrix' = matrix]_vars

\* in a cycle after the first, the window was resized while the ripple stood
\* between two rows
C17_Witness ==
    /\ variant = "async"
    /\ dpc = "ripple"
    /\ cycle >= 2
    /\ task = "reformat"
    /\ rippleY + 1 < Len(matrix)

C19_Generations ==
    [][/\ cycle' # cycle =>
            (cycle' = cycle + 1 /\ generation = cycle' - 1 /\ generation' = generation)
       /\ generation' # generation =>
            (generation' = cycle /\ cycle' = cycle)]_vars

\* the setInterval driver has displayed the grid in its last cycle, and is
\* about to call update
C19_Witness ==
    /\ variant = "interval"
    /\ dpc = "shown"
    /\ cycle = MaxCycles
    /\ generation = MaxCycles - 1
    /\ Lit

\* the board has gridWidth * gridHeight cells, and the display matrix
\* gridWidth columns of gridHeight entries
DisplayShape ==
    /\ Len(board) = gridWidth * gridHeight
    /\ Len(displayMatrix) = gridWidth
    /\ \A x \in DOMAIN displayMatrix : Len(displayMatrix[x]) = gridHeight

\* C20: after the FlipBoard constructor and after every reformatCells call
\* (with a positive cell size), there are gridWidth * gridHeight FlipElements
\* and displayMatrix has gridWidth columns of gridHeight entries; a
\* reformatCells call leaves the entries inside both the old and the new grid
\* as they were, and the new entries are false.
C20_Reformat ==
    [][variant' # "none" =>
         /\ DisplayShape'
         /\ Reformatted' =>
                \A x \in 0..(gridWidth' - 1), y \in 0..(gridHeight' - 1) :
                    MatrixAt(displayMatrix', x, y) =
                        (x < gridWidth /\ y < gridHeight /\ MatrixAt(displayMatrix, x, y))]_vars

\* reformatCells has reshaped a display that shows live cells
C20_Witness ==
    /\ task = "reformat"
    /\ gridHeight > 1
    /\ Lit
    /\ \E x \in DOMAIN displayMatrix : \A y \in DOMAIN displayMatrix[x] : ~displayMatrix[x][y]

====
